---- MODULE Spec2Model ----
(***************************************************************************)
(* A model of the NFL PickEm server (src/app.py) and of the updater that   *)
(* feeds its matches table (src/auto_nfl_updater_2024.py).                 *)
(*                                                                         *)
(* The database is the local SQLite file the application creates when      *)
(* DATABASE_URL is not set (app.py:23-26): the updater opens the same file *)
(* with sqlite3, and SQLite does not enforce the declared foreign keys.    *)
(*                                                                         *)
(* A table is a set of rows; picks is a bag of rows, because nothing in    *)
(* the schema keeps two Pick rows with equal columns apart but the         *)
(* generated id.  Pick.id, created_at and is_correct (never written) and   *)
(* Match.game_time are left out: no handler modelled here reads them.      *)
(***************************************************************************)
EXTENDS Integers, FiniteSets, Sequences, Bags, TLC

VARIABLES
    users,            \* table users: a set of [id, username, password_hash, is_active]
    session,          \* session['user_id'] of the client session, NoUser when the key is absent
    picks,            \* table picks: a bag of [user_id, match_id, team_id, week]
    matches,          \* table matches: a set of rows, one per id
    team_usage,       \* table team_usage: a set of [id, user_id, team_id, usage_type, week]
    historical_picks, \* table historical_picks: a set of [id, user_id, week, team_id, is_correct]
    last,             \* the last request handled and its response
    reqs,             \* the create_pick requests in flight (concurrent specification only)
    teams,            \* table teams: a set of [id, abbreviation]
    upd,              \* the pass of run_auto_update under way and its results dictionary
    bg                \* the FlaskNFLUpdater object, its thread and the clock it reads

vars == <<users, session, picks, matches, team_usage, historical_picks, last, reqs,
          teams, upd, bg>>

----------------------------------------------------------------------------
(* Bounds of the model *)

\* Week numbers of submissions and of fetched games run up to MaxWeek.
MaxWeek == 3

\* A database found populated holds up to MaxStoredWins 'winner' rows of one (user, team).
MaxStoredWins == 3

\* The hours the clock of the updater thread runs through, from Monday 22:00 on.
MaxHours == 14

----------------------------------------------------------------------------
(* Program constants *)

\* create_pick: "if week <= 2" closes the weeks up to 2.
LastClosedWeek == 2

\* create_pick: data.get('week', 3).
DefaultWeek == 3

\* create_pick: "if winner_count >= 2".
WinnerCap == 2

\* session without a 'user_id' key.
NoUser == 0

\* A match_id or team_id that is missing, null or 0: "not match_id or not team_id".
NoId == 0

\* A request body without a 'week' key.
WeekAbsent == -1

\* A 'week' value that is no number (null, text): "week <= 2" raises TypeError.
WeekBad == -2

\* away_score / home_score of a game that is not completed: None.
NoScore == -1

----------------------------------------------------------------------------
(* The rows init_database seeds *)

UserRows ==
    { [id |-> 1, username |-> "Manuel",   password_hash |-> "Manuel1",   is_active |-> TRUE],
      [id |-> 2, username |-> "Daniel",   password_hash |-> "Daniel1",   is_active |-> TRUE],
      [id |-> 3, username |-> "Raff",     password_hash |-> "Raff1",     is_active |-> TRUE],
      [id |-> 4, username |-> "Haunschi", password_hash |-> "Haunschi1", is_active |-> TRUE] }

HistoricalData ==
    { [id |-> 1, user_id |-> 1, week |-> 1, team_id |-> 2,  is_correct |-> FALSE],
      [id |-> 2, user_id |-> 1, week |-> 2, team_id |-> 9,  is_correct |-> TRUE],
      [id |-> 3, user_id |-> 2, week |-> 1, team_id |-> 10, is_correct |-> TRUE],
      [id |-> 4, user_id |-> 2, week |-> 2, team_id |-> 26, is_correct |-> TRUE],
      [id |-> 5, user_id |-> 3, week |-> 1, team_id |-> 7,  is_correct |-> TRUE],
      [id |-> 6, user_id |-> 3, week |-> 2, team_id |-> 9,  is_correct |-> TRUE],
      [id |-> 7, user_id |-> 4, week |-> 1, team_id |-> 32, is_correct |-> TRUE],
      [id |-> 8, user_id |-> 4, week |-> 2, team_id |-> 4,  is_correct |-> TRUE] }

TeamUsageData ==
    { [id |-> 1, user_id |-> 1, team_id |-> 9,  usage_type |-> "winner", week |-> 2],
      [id |-> 2, user_id |-> 2, team_id |-> 10, usage_type |-> "winner", week |-> 1],
      [id |-> 3, user_id |-> 2, team_id |-> 26, usage_type |-> "winner", week |-> 2],
      [id |-> 4, user_id |-> 3, team_id |-> 7,  usage_type |-> "winner", week |-> 1],
      [id |-> 5, user_id |-> 3, team_id |-> 9,  usage_type |-> "winner", week |-> 2],
      [id |-> 6, user_id |-> 4, team_id |-> 32, usage_type |-> "winner", week |-> 1],
      [id |-> 7, user_id |-> 4, team_id |-> 4,  usage_type |-> "winner", week |-> 2] }

\* teams_data: the 32 teams, by id and abbreviation.
TeamAbbreviations ==
    << "ARI", "ATL", "BAL", "BUF", "CAR", "CHI", "CIN", "CLE", "DAL", "DEN", "DET", "GB",
       "HOU", "IND", "JAX", "KC", "LV", "LAC", "LAR", "MIA", "MIN", "NE", "NO", "NYG",
       "NYJ", "PHI", "PIT", "SF", "SEA", "TB", "TEN", "WAS" >>

TeamsData ==
    { [id |-> i, abbreviation |-> TeamAbbreviations[i]] : i \in DOMAIN TeamAbbreviations }

----------------------------------------------------------------------------
(* Inputs of the requests and of the feed *)

\* The users whose requests the model follows.
Clients == {1, 2}

\* The credentials a login request carries: right ones, a wrong password, an empty field.
Credentials ==
    { <<"Manuel", "Manuel1">>, <<"Daniel", "Daniel1">>, <<"Manuel", "Daniel1">>,
      <<"", "Manuel1">>, <<"Daniel", "">> }

Weeks == LastClosedWeek..MaxWeek
WeekInputs == Weeks \cup {WeekAbsent, WeekBad}
MatchInputs == {NoId, 1}
TeamInputs == {NoId, 2, 10}

\* The bodies a create_pick request carries: both ids with every week input, and the
\* bodies that lack an id.
PickBodies ==
    { [match_id |-> m, team_id |-> t, week |-> w] :
        m \in MatchInputs \ {NoId}, t \in TeamInputs \ {NoId}, w \in WeekInputs }
    \cup { [match_id |-> m, team_id |-> t, week |-> WeekAbsent] :
             m \in MatchInputs, t \in TeamInputs }

\* The games the feed knows, with the final score it reports once a game is completed.
FeedGames ==
    { [id |-> 1, away_team_id |-> 2, home_team_id |-> 9, away_final |-> 20, home_final |-> 34] }

----------------------------------------------------------------------------
(* Queries *)

\* No pass of run_auto_update is under way: its locals and its results dictionary.
NoPass == [pc |-> "idle", available_weeks |-> {}, db_weeks |-> {}, new_weeks |-> {},
           weeks_to_check |-> {}, success |-> TRUE, teams_updated |-> FALSE,
           new_weeks_added |-> {}, results_updated |-> FALSE, errors |-> {}]

\* The value None of last_update and of a current_time not read yet.
NoTime == -1

\* No FlaskNFLUpdater has been constructed: its fields, the number of threads it has
\* started, the position of its loop, and the locals of the loop's latest check.
NoUpdater == [pc |-> "none", running |-> FALSE, last_update |-> NoTime, threads |-> 0,
              loop |-> "none", current_time |-> NoTime, should_update |-> FALSE,
              raised |-> FALSE]

NoPick == [user_id |-> NoUser, match_id |-> NoId, team_id |-> NoId, week |-> 0]

NoRequest == [op |-> "none", user |-> NoUser, match_id |-> NoId, team_id |-> NoId,
              week |-> 0, result |-> "none", replaced |-> FALSE, existing |-> NoPick,
              username |-> "", password |-> "", board |-> <<>>, rank |-> 0]

\* Pick.query.filter_by(user_id=..., week=...): the rows, without their multiplicity.
PicksOf(pk, user_id, week) ==
    {p \in BagToSet(pk) : p.user_id = user_id /\ p.week = week}

\* The number of Pick rows of (user_id, week).
PickCount(pk, user_id, week) ==
    LET rows == PicksOf(pk, user_id, week)
        sum[S \in SUBSET rows] ==
            IF S = {} THEN 0
            ELSE LET r == CHOOSE x \in S : TRUE IN CopiesIn(r, pk) + sum[S \ {r}]
    IN sum[rows]

\* TeamUsage.query.filter_by(user_id=..., team_id=...).all(), counted by usage_type.
UsageCount(usage, user_id, team_id, usage_type) ==
    Cardinality({r \in usage : r.user_id = user_id /\ r.team_id = team_id
                               /\ r.usage_type = usage_type})

\* data.get('week', 3)
WeekOf(week) == IF week = WeekAbsent THEN DefaultWeek ELSE week

----------------------------------------------------------------------------
(* create_pick *)

\* PickVerdict without the 'loser' check.
PickVerdictNoLoserCheck(user_id, match_id, team_id, week, usage) ==
    IF user_id = NoUser THEN "not_logged_in"
    ELSE IF match_id = NoId \/ team_id = NoId THEN "missing_ids"
    ELSE IF week = WeekBad THEN "error"
    ELSE IF WeekOf(week) <= LastClosedWeek THEN "week_closed"
    ELSE IF UsageCount(usage, user_id, team_id, "winner") >= WinnerCap THEN "cap_reached"
    ELSE "ok"

\* PickVerdict with the cap tested by > instead of >=.
PickVerdictCapOffByOne(user_id, match_id, team_id, week, usage) ==
    IF user_id = NoUser THEN "not_logged_in"
    ELSE IF match_id = NoId \/ team_id = NoId THEN "missing_ids"
    ELSE IF week = WeekBad THEN "error"
    ELSE IF WeekOf(week) <= LastClosedWeek THEN "week_closed"
    ELSE IF UsageCount(usage, user_id, team_id, "loser") > 0 THEN "eliminated"
    ELSE IF UsageCount(usage, user_id, team_id, "winner") > WinnerCap THEN "cap_reached"
    ELSE "ok"

\* PickVerdict without the test of the week.
PickVerdictNoWeekCheck(user_id, match_id, team_id, week, usage) ==
    IF user_id = NoUser THEN "not_logged_in"
    ELSE IF match_id = NoId \/ team_id = NoId THEN "missing_ids"
    ELSE IF week = WeekBad THEN "error"
    ELSE IF UsageCount(usage, user_id, team_id, "loser") > 0 THEN "eliminated"
    ELSE IF UsageCount(usage, user_id, team_id, "winner") >= WinnerCap THEN "cap_reached"
    ELSE "ok"

\* PickVerdict with the winner count tested before the 'loser' rows.
PickVerdictCapFirst(user_id, match_id, team_id, week, usage) ==
    IF user_id = NoUser THEN "not_logged_in"
    ELSE IF match_id = NoId \/ team_id = NoId THEN "missing_ids"
    ELSE IF week = WeekBad THEN "error"
    ELSE IF WeekOf(week) <= LastClosedWeek THEN "week_closed"
    ELSE IF UsageCount(usage, user_id, team_id, "winner") >= WinnerCap THEN "cap_reached"
    ELSE IF UsageCount(usage, user_id, team_id, "loser") > 0 THEN "eliminated"
    ELSE "ok"

\* The checks of create_pick, in the order of the code, up to the first that returns.
PickVerdict(user_id, match_id, team_id, week, usage) ==
    IF user_id = NoUser THEN "not_logged_in"
    ELSE IF match_id = NoId \/ team_id = NoId THEN "missing_ids"
    ELSE IF week = WeekBad THEN "error"
    ELSE IF WeekOf(week) <= LastClosedWeek THEN "week_closed"
    ELSE IF UsageCount(usage, user_id, team_id, "loser") > 0 THEN "eliminated"
    ELSE IF UsageCount(usage, user_id, team_id, "winner") >= WinnerCap THEN "cap_reached"
    ELSE "ok"

\* ExistingPick with a filter that matches no row.
ExistingPickNone(pk, user_id, week) == {NoPick}

\* ExistingPick with a filter on the week alone.
ExistingPickAnyUser(pk, user_id, week) ==
    IF {p \in BagToSet(pk) : p.week = week} = {} THEN {NoPick}
    ELSE {p \in BagToSet(pk) : p.week = week}

\* Pick.query.filter_by(user_id, week).first(): one of the rows, or None.
ExistingPick(pk, user_id, week) ==
    IF PicksOf(pk, user_id, week) = {} THEN {NoPick} ELSE PicksOf(pk, user_id, week)

\* ReplacePick without the delete of the existing row.
ReplacePickNoDelete(pk, existing, new) ==
    pk (+) SetToBag({new})

\* ReplacePick that keeps the existing row and drops the new one.
ReplacePickKeepOld(pk, existing, new) ==
    IF existing = NoPick THEN pk (+) SetToBag({new}) ELSE pk

\* db.session.delete(existing_pick) if there is one; db.session.add(new_pick); commit.
ReplacePick(pk, existing, new) ==
    (IF existing = NoPick THEN pk ELSE pk (-) SetToBag({existing})) (+) SetToBag({new})

\* create_pick with the existing pick removed before the usage checks.
create_pick_delete_first(match_id, team_id, week) ==
    LET verdict == PickVerdict(session, match_id, team_id, week, team_usage)
        new == [user_id |-> session, match_id |-> match_id, team_id |-> team_id,
                week |-> WeekOf(week)]
        request == [op |-> "create_pick", user |-> session, match_id |-> match_id,
                    team_id |-> team_id, week |-> week, result |-> verdict,
                    replaced |-> FALSE, existing |-> NoPick,
                    username |-> "", password |-> "", board |-> <<>>, rank |-> 0]
    IN  /\ IF verdict \in {"ok", "eliminated", "cap_reached"}
           THEN \E existing \in ExistingPick(picks, session, WeekOf(week)) :
                    /\ picks' = IF verdict = "ok"
                                THEN ReplacePick(picks, existing, new)
                                ELSE picks (-) SetToBag({existing})
                    /\ last' = [request EXCEPT !.replaced = (existing # NoPick),
                                             !.existing = existing]
           ELSE /\ picks' = picks
                /\ last' = request
        /\ UNCHANGED <<users, session, matches, team_usage, historical_picks, reqs, teams, upd, bg>>

\* create_pick that records the picked team in the usage ledger when it stores the pick.
create_pick_records_usage(match_id, team_id, week) ==
    LET verdict == PickVerdict(session, match_id, team_id, week, team_usage)
        new == [user_id |-> session, match_id |-> match_id, team_id |-> team_id,
                week |-> WeekOf(week)]
        request == [op |-> "create_pick", user |-> session, match_id |-> match_id,
                    team_id |-> team_id, week |-> week, result |-> verdict,
                    replaced |-> FALSE, existing |-> NoPick,
                    username |-> "", password |-> "", board |-> <<>>, rank |-> 0]
    IN  /\ IF verdict = "ok"
           THEN \E existing \in ExistingPick(picks, session, WeekOf(week)) :
                    /\ picks' = ReplacePick(picks, existing, new)
                    /\ team_usage' = team_usage \cup
                           {[id |-> 1 + Cardinality(team_usage), user_id |-> session,
                             team_id |-> team_id, usage_type |-> "winner",
                             week |-> WeekOf(week)]}
                    /\ last' = [request EXCEPT !.replaced = (existing # NoPick),
                                               !.existing = existing]
           ELSE /\ picks' = picks
                /\ team_usage' = team_usage
                /\ last' = request
        /\ UNCHANGED <<users, session, matches, historical_picks, reqs, teams, upd, bg>>

create_pick(match_id, team_id, week) ==
    LET verdict == PickVerdict(session, match_id, team_id, week, team_usage)
        new == [user_id |-> session, match_id |-> match_id, team_id |-> team_id,
                week |-> WeekOf(week)]
        request == [op |-> "create_pick", user |-> session, match_id |-> match_id,
                    team_id |-> team_id, week |-> week, result |-> verdict,
                    replaced |-> FALSE, existing |-> NoPick,
                    username |-> "", password |-> "", board |-> <<>>, rank |-> 0]
    IN  /\ IF verdict = "ok"
           THEN \E existing \in ExistingPick(picks, session, WeekOf(week)) :
                    /\ picks' = ReplacePick(picks, existing, new)
                    /\ last' = [request EXCEPT !.replaced = (existing # NoPick),
                                             !.existing = existing]
           ELSE /\ picks' = picks
                /\ last' = request
        /\ UNCHANGED <<users, session, matches, team_usage, historical_picks, reqs, teams, upd, bg>>

----------------------------------------------------------------------------
(* login, logout *)

\* LoginUser that looks the user up by the username alone.
LoginUserAnyPassword(username, password) ==
    {u \in users : u.username = username /\ u.is_active}

\* User.query.filter_by(username=..., password_hash=...).first(), and user.is_active.
LoginUser(username, password) ==
    {u \in users : u.username = username /\ u.password_hash = password /\ u.is_active}

login(username, password) ==
    LET found == LoginUser(username, password)
        result == IF username = "" \/ password = "" THEN "missing_credentials"
                  ELSE IF found # {} THEN "ok" ELSE "invalid_credentials"
        user == IF result = "ok" THEN (CHOOSE u \in found : TRUE).id ELSE NoUser
    IN  /\ session' = IF result = "ok" THEN user ELSE session
        /\ last' = [NoRequest EXCEPT !.op = "login", !.user = user, !.result = result,
                                     !.username = username, !.password = password]
        /\ UNCHANGED <<users, picks, matches, team_usage, historical_picks, reqs, teams, upd, bg>>

logout ==
    /\ session' = NoUser
    /\ last' = [NoRequest EXCEPT !.op = "logout", !.result = "ok"]
    /\ UNCHANGED <<users, picks, matches, team_usage, historical_picks, reqs, teams, upd, bg>>

----------------------------------------------------------------------------
(* The updater: each call below is one transaction on the matches table.   *)
(* run_auto_update calls add_week_to_database for the weeks the feed lists *)
(* and the database lacks, then update_game_results; a call whose fetch    *)
(* returns nothing changes nothing, so a pass is any sequence of them.     *)

\* One game as fetch_week_games returns it.
GameInfo(g, week, is_completed) ==
    [id |-> g.id, week |-> week,
     away_team_id |-> g.away_team_id, home_team_id |-> g.home_team_id,
     is_completed |-> is_completed,
     away_score |-> IF is_completed THEN g.away_final ELSE NoScore,
     home_score |-> IF is_completed THEN g.home_final ELSE NoScore]

\* What fetch_week_games may return: no game (also on an error), or some of the
\* feed's games, each with the week number and the status the feed gives it.
fetch_week_games ==
    { {GameInfo(g, f[g][1], f[g][2]) : g \in S} :
        S \in SUBSET FeedGames, f \in [FeedGames -> Weeks \X BOOLEAN] }

\* get_weeks_in_database
get_weeks_in_database(ms) == {r.week : r \in ms}

\* DELETE FROM matches WHERE week = ?; INSERT OR REPLACE each game.
AddWeekRows(ms, week, games) ==
    IF games = {} THEN ms
    ELSE {r \in ms : r.week # week /\ ~(\E g \in games : g.id = r.id)} \cup games

add_week_to_database(week, games) ==
    /\ week \notin get_weeks_in_database(matches)
    /\ matches' = AddWeekRows(matches, week, games)
    /\ last' = [NoRequest EXCEPT !.op = "add_week", !.week = week,
                                 !.result = IF games = {} THEN "false" ELSE "true"]
    /\ UNCHANGED <<users, session, picks, team_usage, historical_picks, reqs, teams, upd, bg>>

\* UPDATE matches SET is_completed, away_score, home_score WHERE id = ?, for each
\* fetched game that is completed.
UpdateResultRows(ms, games) ==
    { IF \E g \in games : g.id = r.id /\ g.is_completed
      THEN LET g == CHOOSE x \in games : x.id = r.id IN
           [r EXCEPT !.is_completed = g.is_completed,
                     !.away_score = g.away_score, !.home_score = g.home_score]
      ELSE r : r \in ms }

\* The weeks update_game_results checks: SELECT DISTINCT week WHERE is_completed = 0.
WeeksToCheck(ms) == {r.week : r \in {x \in ms : ~x.is_completed}}

update_game_results(week, games) ==
    /\ week \in WeeksToCheck(matches)
    /\ matches' = UpdateResultRows(matches, games)
    /\ last' = [NoRequest EXCEPT !.op = "update_results", !.week = week, !.result = "true"]
    /\ UNCHANGED <<users, session, picks, team_usage, historical_picks, reqs, teams, upd, bg>>

----------------------------------------------------------------------------
(* init_database: it runs whenever the server starts (app.py:581), on the  *)
(* database file the last run left.  The session is a signed cookie of the *)
(* client and outlives the restart.  A generated id is only told apart     *)
(* from the others, never read: a new row gets an id above those in use.   *)

MaxId(rows) ==
    IF rows = {} THEN 0 ELSE CHOOSE n \in {r.id : r \in rows} : \A r \in rows : r.id <= n

Renumber(rows, base) == {[r EXCEPT !.id = base + r.id] : r \in rows}

\* app.py:166-175: add each team of teams_data, or overwrite the row that has its id.
SeedTeams(ts) ==
    {t \in ts : ~(\E d \in TeamsData : d.id = t.id)} \cup TeamsData

\* app.py:189-193: add each row of historical_data whose (user_id, week) has no row yet.
SeedHistorical(hist) ==
    hist \cup Renumber({d \in HistoricalData :
                           ~(\E h \in hist : h.user_id = d.user_id /\ h.week = d.week)},
                       MaxId(hist))

\* app.py:206-210: add each row of team_usage_data that is not there yet.
SeedUsage(usage) ==
    usage \cup Renumber({d \in TeamUsageData :
                            ~(\E r \in usage : /\ r.user_id = d.user_id
                                               /\ r.team_id = d.team_id
                                               /\ r.usage_type = d.usage_type
                                               /\ r.week = d.week)},
                        MaxId(usage))

\* init_database that seeds on every start and does not look for the rows it adds.
init_database_no_guard ==
    /\ users' = IF users = {} THEN UserRows ELSE users
    /\ historical_picks' =
           historical_picks \cup Renumber(HistoricalData, MaxId(historical_picks))
    /\ team_usage' = team_usage \cup Renumber(TeamUsageData, MaxId(team_usage))
    /\ last' = [NoRequest EXCEPT !.op = "init_database", !.result = "seeded"]
    /\ UNCHANGED <<session, picks, matches, reqs, teams, upd, bg>>

\* init_database that derives a TeamUsage row from every HistoricalPick on every start.
init_database_usage_from_history ==
    /\ users' = IF users = {} THEN UserRows ELSE users
    /\ historical_picks' = historical_picks
    /\ team_usage' =
           team_usage \cup
           Renumber({[id |-> h.id, user_id |-> h.user_id, team_id |-> h.team_id,
                      usage_type |-> IF h.is_correct THEN "winner" ELSE "loser",
                      week |-> h.week] : h \in historical_picks},
                    MaxId(team_usage))
    /\ last' = [NoRequest EXCEPT !.op = "init_database", !.result = "seeded"]
    /\ UNCHANGED <<session, picks, matches, reqs, teams, upd, bg>>

\* init_database that empties the ledger tables and seeds them again on every start.
init_database_reset ==
    /\ users' = IF users = {} THEN UserRows ELSE users
    /\ historical_picks' = SeedHistorical({})
    /\ team_usage' = SeedUsage({})
    /\ last' = [NoRequest EXCEPT !.op = "init_database", !.result = "seeded"]
    /\ UNCHANGED <<session, picks, matches, reqs, teams, upd, bg>>

init_database ==
    LET empty == Cardinality(users) = 0 IN
    /\ users' = IF empty THEN UserRows ELSE users
    /\ historical_picks' = IF empty THEN SeedHistorical(historical_picks)
                           ELSE historical_picks
    /\ team_usage' = IF empty THEN SeedUsage(team_usage) ELSE team_usage
    /\ teams' = IF empty THEN SeedTeams(teams) ELSE teams
    /\ last' = [NoRequest EXCEPT !.op = "init_database",
                                 !.result = IF empty THEN "seeded" ELSE "kept"]
    /\ UNCHANGED <<session, picks, matches, reqs, upd, bg>>

----------------------------------------------------------------------------
(* leaderboard, dashboard *)

\* Pick.query.filter_by(user_id=user.id).count()
CurrentPicks(pk, user_id) ==
    LET rows == {p \in BagToSet(pk) : p.user_id = user_id}
        sum[S \in SUBSET rows] ==
            IF S = {} THEN 0
            ELSE LET r == CHOOSE x \in S : TRUE IN CopiesIn(r, pk) + sum[S \ {r}]
    IN sum[rows]

\* leaderboard: total_picks = len(historical_picks) + current_picks
TotalPicks(user_id) ==
    Cardinality({h \in historical_picks : h.user_id = user_id}) + CurrentPicks(picks, user_id)

\* sum(1 for pick in historical_picks if pick.is_correct)
Points(user_id) ==
    Cardinality({h \in historical_picks : h.user_id = user_id /\ h.is_correct})

\* User.query.all(): the ids of the users, in the order of the primary key in which
\* SQLite scans the table.
RECURSIVE AscendingIds(_)
AscendingIds(ids) ==
    IF ids = {} THEN <<>>
    ELSE LET least == CHOOSE i \in ids : \A j \in ids : i <= j
         IN  <<least>> \o AscendingIds(ids \ {least})

AllUsers == AscendingIds({u.id : u \in users})

\* list.sort(key=points, reverse=True): Python's sort is stable, also when reversed, so
\* an entry comes after the entries with more points and after the earlier entries
\* with equal points.
SortByPoints(order) ==
    LET place(i) == 1 + Cardinality({j \in DOMAIN order :
                            \/ Points(order[j]) > Points(order[i])
                            \/ (Points(order[j]) = Points(order[i]) /\ j < i)})
    IN  [k \in DOMAIN order |-> order[CHOOSE i \in DOMAIN order : place(i) = k]]

\* LeaderboardRank with current_rank raised by one at each change of points.
RECURSIVE LeaderboardRankDense(_, _)
LeaderboardRankDense(sorted, k) ==
    IF k = 1 THEN 1
    ELSE IF Points(sorted[k]) # Points(sorted[k - 1])
         THEN LeaderboardRankDense(sorted, k - 1) + 1
         ELSE LeaderboardRankDense(sorted, k - 1)

\* leaderboard: current_rank = i + 1 where the points differ from the entry before.
RECURSIVE LeaderboardRank(_, _)
LeaderboardRank(sorted, k) ==
    IF k = 1 THEN 1
    ELSE IF Points(sorted[k]) # Points(sorted[k - 1]) THEN k
         ELSE LeaderboardRank(sorted, k - 1)

\* leaderboard_data after the sort and the ranks.
LeaderboardData ==
    LET sorted == SortByPoints(AllUsers)
    IN  [k \in DOMAIN sorted |->
            [user_id |-> sorted[k], points |-> Points(sorted[k]),
             total_picks |-> TotalPicks(sorted[k]), rank |-> LeaderboardRank(sorted, k)]]

leaderboard ==
    /\ last' = [NoRequest EXCEPT !.op = "leaderboard", !.result = "ok",
                                 !.board = LeaderboardData]
    /\ UNCHANGED <<users, session, picks, matches, team_usage, historical_picks, reqs,
                   teams, upd, bg>>

\* dashboard: rank = next(i + 1 for i, (uid, _) in enumerate(user_scores) if uid == user_id),
\* len(user_scores) when the user is not among them.
DashboardRank(user_id) ==
    LET user_scores == SortByPoints(AllUsers)
        at == {i \in DOMAIN user_scores : user_scores[i] = user_id}
    IN  IF at = {} THEN Len(user_scores) ELSE CHOOSE i \in at : \A j \in at : i <= j

dashboard ==
    /\ last' = IF session = NoUser
               THEN [NoRequest EXCEPT !.op = "dashboard", !.result = "not_logged_in"]
               ELSE [NoRequest EXCEPT !.op = "dashboard", !.result = "ok", !.user = session,
                                      !.rank = DashboardRank(session)]
    /\ UNCHANGED <<users, session, picks, matches, team_usage, historical_picks, reqs,
                   teams, upd, bg>>

----------------------------------------------------------------------------
(* The server after init_database on an empty database *)

Init ==
    /\ users = UserRows
    /\ session = NoUser
    /\ picks = EmptyBag
    /\ matches = {}
    /\ team_usage = SeedUsage({})
    /\ historical_picks = SeedHistorical({})
    /\ last = NoRequest
    /\ reqs = <<>>
    /\ teams = SeedTeams({})
    /\ upd = NoPass
    /\ bg = NoUpdater

Next ==
    \/ init_database
    \/ \E c \in Credentials : login(c[1], c[2])
    \/ logout
    \/ \E b \in PickBodies : create_pick(b.match_id, b.team_id, b.week)
    \/ \E w \in Weeks, games \in fetch_week_games : add_week_to_database(w, games)
    \/ \E w \in Weeks, games \in fetch_week_games : update_game_results(w, games)

Spec == Init /\ [][Next]_vars

----------------------------------------------------------------------------
(* The server started on a database that is already populated.             *)
(* init_database seeds only when the users table is empty (app.py:119) and *)
(* leaves every other database as it finds it, so the ledger create_pick   *)
(* reads is whatever the file holds.  Here it is the seed plus rows of     *)
(* user 1 for team 2: a 'loser' row or none, and 0..MaxStoredWins 'winner' *)
(* rows.                                                                   *)

StoredUsage(loser, wins) ==
    TeamUsageData
    \cup (IF loser THEN {[id |-> 8, user_id |-> 1, team_id |-> 2, usage_type |-> "loser",
                           week |-> 1]}
          ELSE {})
    \cup {[id |-> 8 + w, user_id |-> 1, team_id |-> 2, usage_type |-> "winner", week |-> w] :
            w \in 1..wins}

InitStored ==
    /\ users = UserRows
    /\ session = NoUser
    /\ picks = EmptyBag
    /\ matches = {}
    /\ \E loser \in BOOLEAN, wins \in 0..MaxStoredWins :
           team_usage = StoredUsage(loser, wins)
    /\ historical_picks = HistoricalData
    /\ last = NoRequest
    /\ reqs = <<>>
    /\ teams = SeedTeams({})
    /\ upd = NoPass
    /\ bg = NoUpdater

SpecStored == InitStored /\ [][Next]_vars

----------------------------------------------------------------------------
(* The server with its updater thread: _background_update_loop runs a pass *)
(* of the updater again and again (flask_auto_updater.py:96-150), so a     *)
(* call of the updater that can be made is eventually made.                *)

background_update_loop ==
    \/ \E w \in Weeks, games \in fetch_week_games : add_week_to_database(w, games)
    \/ \E w \in Weeks, games \in fetch_week_games : update_game_results(w, games)

SpecLoop == Init /\ [][Next]_vars /\ WF_vars(background_update_loop)

----------------------------------------------------------------------------
(* run_auto_update, step by step.  Each call of the updater that writes is *)
(* one transaction; the locals of the pass (available_weeks, db_weeks, the *)
(* weeks still to add, weeks_to_check) are read once and kept.  The        *)
(* methods it calls catch every exception and return False or an empty     *)
(* list, so no step of the pass appends to results['errors'].              *)

\* The games and the teams the feed of these passes knows.
FeedSchedule ==
    FeedGames \cup
    { [id |-> 2, away_team_id |-> 10, home_team_id |-> 26, away_final |-> 17, home_final |-> 3] }

FeedTeams == {[id |-> 32, abbreviation |-> "WSH"]}

\* What fetch_week_games may return from FeedSchedule.
fetch_schedule_games ==
    { {GameInfo(g, f[g][1], f[g][2]) : g \in S} :
        S \in SUBSET FeedSchedule, f \in [FeedSchedule -> Weeks \X BOOLEAN] }

\* update_teams_in_database: INSERT OR REPLACE each team of the feed.
UpdateTeamRows(ts, feed) ==
    {t \in ts : ~(\E d \in feed : d.id = t.id)} \cup feed

\* Steps 1 and 2: the teams update (returned is what update_teams_in_database returns,
\* False after an exception), the weeks the feed lists and the weeks in the database.
run_auto_update_begin(returned, available) ==
    /\ upd.pc \in {"idle", "returned"}
    /\ teams' = IF returned THEN UpdateTeamRows(teams, FeedTeams) ELSE teams
    /\ upd' = [NoPass EXCEPT !.pc = "adding",
                             !.teams_updated = returned,
                             !.available_weeks = available,
                             !.db_weeks = get_weeks_in_database(matches),
                             !.new_weeks = available \ get_weeks_in_database(matches)]
    /\ UNCHANGED <<users, session, picks, matches, team_usage, historical_picks, last, reqs, bg>>

\* Step 3, once for each new week in ascending order: add_week_to_database returns
\* False when no game was fetched and when an exception ended it before the commit.
run_auto_update_add_week(games, committed) ==
    /\ upd.pc = "adding"
    /\ upd.new_weeks # {}
    /\ LET week == CHOOSE w \in upd.new_weeks : \A v \in upd.new_weeks : w <= v
           returned == games # {} /\ committed
       IN  /\ matches' = IF returned THEN AddWeekRows(matches, week, games) ELSE matches
           /\ upd' = [upd EXCEPT !.new_weeks = @ \ {week},
                                 !.new_weeks_added = IF returned THEN @ \cup {week} ELSE @]
    /\ UNCHANGED <<users, session, picks, team_usage, historical_picks, last, reqs, teams, bg>>

\* Step 4, update_game_results: the weeks with a game that is not completed; an
\* exception ends it with False.
run_auto_update_results_begin(raised) ==
    /\ upd.pc = "adding"
    /\ upd.new_weeks = {}
    /\ upd' = IF raised THEN [upd EXCEPT !.pc = "summary"]
              ELSE [upd EXCEPT !.pc = "results", !.weeks_to_check = WeeksToCheck(matches)]
    /\ UNCHANGED <<users, session, picks, matches, team_usage, historical_picks, last, reqs,
                   teams, bg>>

\* update_game_results, one week of weeks_to_check: fetch, UPDATE, commit.
run_auto_update_results_week(week, games, raised) ==
    /\ upd.pc = "results"
    /\ week \in upd.weeks_to_check
    /\ matches' = IF raised THEN matches ELSE UpdateResultRows(matches, games)
    /\ upd' = IF raised THEN [upd EXCEPT !.pc = "summary"]
              ELSE [upd EXCEPT !.weeks_to_check = @ \ {week},
                               !.results_updated = (upd.weeks_to_check = {week}),
                               !.pc = IF upd.weeks_to_check = {week} THEN "summary"
                                      ELSE "results"]
    /\ UNCHANGED <<users, session, picks, team_usage, historical_picks, last, reqs, teams, bg>>

\* update_game_results with no week to check returns True.
run_auto_update_results_none ==
    /\ upd.pc = "results"
    /\ upd.weeks_to_check = {}
    /\ upd' = [upd EXCEPT !.pc = "summary", !.results_updated = TRUE]
    /\ UNCHANGED <<users, session, picks, matches, team_usage, historical_picks, last, reqs,
                   teams, bg>>

\* The summary: success becomes False if errors is not empty; return results.
run_auto_update_return ==
    /\ upd.pc = "summary"
    /\ upd' = [upd EXCEPT !.pc = "returned",
                          !.success = IF upd.errors # {} THEN FALSE ELSE upd.success]
    /\ UNCHANGED <<users, session, picks, matches, team_usage, historical_picks, last, reqs,
                   teams, bg>>

run_auto_update ==
    \/ \E returned \in BOOLEAN, available \in SUBSET Weeks :
           run_auto_update_begin(returned, available)
    \/ \E games \in fetch_schedule_games, committed \in BOOLEAN :
           run_auto_update_add_week(games, committed)
    \/ \E raised \in BOOLEAN : run_auto_update_results_begin(raised)
    \/ \E week \in Weeks, games \in fetch_schedule_games, raised \in BOOLEAN :
           run_auto_update_results_week(week, games, raised)
    \/ run_auto_update_results_none
    \/ run_auto_update_return

SpecUpdater == Init /\ [][run_auto_update]_vars

----------------------------------------------------------------------------
(* FlaskNFLUpdater: the background thread and the manual route             *)
(* (flask_auto_updater.py:19-157).  A time is a number: the hour since the *)
(* first midnight, then the second within the hour (its first second or a  *)
(* later one), then the microsecond within the second (an earlier or a     *)
(* later one).  Day 0 is a Monday; the server is up from Monday 22:00.      *)

Times == (22 * 4) .. ((22 + MaxHours) * 4 - 1)

Micro(t) == t % 2

Hour(t) == (t \div 4) % 24

Day(t) == t \div 96

\* datetime.weekday(): Monday is 0.
Weekday(t) == Day(t) % 7

\* current_time.replace(hour=h, minute=0, second=0): the microsecond is kept.
Replace(t, h) == Day(t) * 96 + h * 4 + Micro(t)

\* time.sleep(3600) ends no earlier than one hour after the check began.
SleepEnd(t) == t + 4

\* The conditions of the loop, lines 107-128.
should_update(current_time, last_update) ==
    \/ last_update = NoTime
    \/ /\ Hour(current_time) = 6
       /\ Day(last_update) < Day(current_time)
    \/ /\ Weekday(current_time) = 1
       /\ Hour(current_time) = 10
       /\ last_update < Replace(current_time, 10)
    \/ /\ Weekday(current_time) \in {0, 1}
       /\ Hour(current_time) >= 23
       /\ last_update < Replace(current_time, 23)

start_background_updater(self) ==
    IF ~self.running
    THEN [self EXCEPT !.running = TRUE, !.threads = self.threads + 1, !.loop = "while"]
    ELSE self

\* __init__: the fields, then _start_background_updater.
FlaskNFLUpdater ==
    /\ bg.pc = "none"
    /\ bg' = start_background_updater([bg EXCEPT !.pc = "ready", !.running = FALSE,
                                                 !.last_update = NoTime])
    /\ UNCHANGED <<users, session, picks, matches, team_usage, historical_picks, last, reqs,
                   teams, upd>>

\* The head of the loop at time t, on its first iteration or when the sleep has ended:
\* it re-reads running and either returns or reads the clock and decides.
background_update_loop_check(t) ==
    /\ \/ bg.loop = "while"
       \/ bg.loop = "sleeping" /\ t >= SleepEnd(bg.current_time)
    /\ t >= bg.last_update
    /\ bg' = IF ~bg.running
             THEN [bg EXCEPT !.loop = "ended"]
             ELSE LET decided == should_update(t, bg.last_update)
                  IN  [bg EXCEPT !.current_time = t, !.should_update = decided,
                                 !.raised = FALSE,
                                 !.loop = IF decided THEN "updating" ELSE "sleeping"]
    /\ UNCHANGED <<users, session, picks, matches, team_usage, historical_picks, last, reqs,
                   teams, upd>>

\* With the exception of run_auto_update ending the loop.
background_update_loop_run_breaks(raised) ==
    /\ bg.loop = "updating"
    /\ bg' = IF raised
             THEN [bg EXCEPT !.raised = TRUE, !.loop = "ended"]
             ELSE [bg EXCEPT !.last_update = bg.current_time, !.loop = "sleeping"]
    /\ UNCHANGED <<users, session, picks, matches, team_usage, historical_picks, last, reqs,
                   teams, upd>>

\* Lines 132-150: run_auto_update returns and the check's time is recorded, or an
\* exception is caught; the loop sleeps in both cases.
background_update_loop_run(raised) ==
    /\ bg.loop = "updating"
    /\ bg' = IF raised
             THEN [bg EXCEPT !.raised = TRUE, !.loop = "sleeping"]
             ELSE [bg EXCEPT !.last_update = bg.current_time, !.loop = "sleeping"]
    /\ UNCHANGED <<users, session, picks, matches, team_usage, historical_picks, last, reqs,
                   teams, upd>>

\* POST /api/nfl-auto-update answered at time t: run_auto_update has returned (it
\* catches its own exceptions) and last_update is set to datetime.now().
manual_nfl_update(t) ==
    /\ bg.pc = "ready"
    /\ t >= bg.last_update
    /\ t >= bg.current_time
    /\ bg' = [bg EXCEPT !.last_update = t]
    /\ UNCHANGED <<users, session, picks, matches, team_usage, historical_picks, last, reqs,
                   teams, upd>>

stop ==
    /\ bg.pc = "ready"
    /\ bg.running
    /\ bg' = [bg EXCEPT !.running = FALSE]
    /\ UNCHANGED <<users, session, picks, matches, team_usage, historical_picks, last, reqs,
                   teams, upd>>

NextThread ==
    \/ FlaskNFLUpdater
    \/ \E t \in Times : background_update_loop_check(t)
    \/ \E raised \in BOOLEAN : background_update_loop_run(raised)
    \/ \E t \in Times : manual_nfl_update(t)
    \/ stop

SpecThread == Init /\ [][NextThread]_vars

----------------------------------------------------------------------------
(* The server answering leaderboard and dashboard requests, on the seeded  *)
(* database and on databases whose historical picks have other outcomes:   *)
(* each user's picks of the first MaxCorrect[user] weeks are correct.      *)

BoardCredentials == Credentials \cup {<<"Raff", "Raff1">>}

\* The body the clients of these specifications submit: match 1, team 2, no week.
BoardBodies == {b \in PickBodies : b.match_id = 1 /\ b.team_id = 2 /\ b.week = WeekAbsent}

NextBoard ==
    \/ \E c \in BoardCredentials : login(c[1], c[2])
    \/ logout
    \/ \E b \in BoardBodies : create_pick(b.match_id, b.team_id, b.week)
    \/ leaderboard
    \/ dashboard

SpecSeedBoard == Init /\ [][NextBoard]_vars

StoredHistory(correct) ==
    {[h EXCEPT !.is_correct = (h.week <= correct[h.user_id])] : h \in HistoricalData}

InitBoard ==
    /\ users = UserRows
    /\ session = NoUser
    /\ picks = EmptyBag
    /\ matches = {}
    /\ team_usage = TeamUsageData
    /\ \E correct \in [{u.id : u \in UserRows} -> 0..LastClosedWeek] :
           historical_picks = StoredHistory(correct)
    /\ last = NoRequest
    /\ reqs = <<>>
    /\ teams = SeedTeams({})
    /\ upd = NoPass
    /\ bg = NoUpdater

SpecBoard == InitBoard /\ [][NextBoard]_vars

----------------------------------------------------------------------------
(* Two create_pick requests of one session handled by concurrent threads.  *)
(* A request reads without a transaction and writes at commit: the DELETE  *)
(* of the row it read (by primary key, matching no row when another        *)
(* request has deleted it meanwhile) and the INSERT are one transaction,   *)
(* which the database applies atomically.                                  *)

Requests == {1, 2}

NewRequest == [stage |-> "new", match_id |-> NoId, team_id |-> NoId, week |-> 0,
               result |-> "none", existing |-> NoPick, deleted |-> FALSE]

\* The row a request inserts.
NewPick(q) == [user_id |-> session, match_id |-> q.match_id, team_id |-> q.team_id,
               week |-> WeekOf(q.week)]

\* app.py:449-474: the session, body and usage checks.
create_pick_check(r, match_id, team_id, week) ==
    LET verdict == PickVerdict(session, match_id, team_id, week, team_usage) IN
    /\ reqs[r].stage = "new"
    /\ reqs' = [reqs EXCEPT ![r] = [NewRequest EXCEPT
                    !.stage = IF verdict = "ok" THEN "checked" ELSE "done",
                    !.match_id = match_id, !.team_id = team_id, !.week = week,
                    !.result = verdict]]
    /\ UNCHANGED <<users, session, picks, matches, team_usage, historical_picks, last, teams, upd, bg>>

\* app.py:477: the query for the existing pick.
create_pick_query(r) ==
    /\ reqs[r].stage = "checked"
    /\ \E existing \in ExistingPick(picks, session, WeekOf(reqs[r].week)) :
           reqs' = [reqs EXCEPT ![r].stage = "read", ![r].existing = existing]
    /\ UNCHANGED <<users, session, picks, matches, team_usage, historical_picks, last, teams, upd, bg>>

\* app.py:478-490: delete, add and commit.
create_pick_commit(r) ==
    LET q == reqs[r]
        removed == IF q.deleted THEN NoPick ELSE q.existing
    IN
    /\ q.stage = "read"
    /\ picks' = ReplacePick(picks, removed, NewPick(q))
    /\ reqs' = [o \in Requests |->
                   IF o = r THEN [q EXCEPT !.stage = "done"]
                   ELSE IF /\ reqs[o].stage = "read"
                           /\ removed # NoPick
                           /\ reqs[o].existing = removed
                        THEN [reqs[o] EXCEPT !.deleted = TRUE]
                        ELSE reqs[o]]
    /\ UNCHANGED <<users, session, matches, team_usage, historical_picks, last, teams, upd, bg>>

\* The picks table the two requests find: empty, or one pick of the user for the week.
PriorPicks ==
    {EmptyBag,
     SetToBag({[user_id |-> 1, match_id |-> 1, team_id |-> 2, week |-> DefaultWeek]})}

InitConc ==
    /\ users = UserRows
    /\ session = 1
    /\ picks \in PriorPicks
    /\ matches = {}
    /\ team_usage = TeamUsageData
    /\ historical_picks = HistoricalData
    /\ last = NoRequest
    /\ reqs = [r \in Requests |-> NewRequest]
    /\ teams = SeedTeams({})
    /\ upd = NoPass
    /\ bg = NoUpdater

NextConc ==
    \/ \E r \in Requests, b \in PickBodies :
           create_pick_check(r, b.match_id, b.team_id, b.week)
    \/ \E r \in Requests : create_pick_query(r)
    \/ \E r \in Requests : create_pick_commit(r)

SpecConc == InitConc /\ [][NextConc]_vars

----------------------------------------------------------------------------
(* Properties of create_pick *)

\* The teams a Pick row of the model can name.
PickTeams == TeamInputs \ {NoId}

\* The last step was a create_pick of a logged-in user with both ids and a numeric week.
WellFormedPick ==
    /\ last.op = "create_pick"
    /\ session # NoUser
    /\ last.match_id # NoId
    /\ last.team_id # NoId
    /\ last.week # WeekBad

HasLoser(user_id, team_id) == UsageCount(team_usage, user_id, team_id, "loser") > 0

\* The Pick rows of (user_id, team_id), with their multiplicity, do not grow in the step.
NoNewPickOf(user_id, team_id) ==
    \A p \in BagToSet(picks') :
        (p.user_id = user_id /\ p.team_id = team_id) => CopiesIn(p, picks') <= CopiesIn(p, picks)

(* C1: once user U has a 'loser' TeamUsage entry for team T, the entry     *)
(* stays, every create_pick of U for T is rejected whatever its week and   *)
(* whatever happened in between, and no step adds a Pick row of U for T.   *)
C1_LoserTeamNeverPickedAgain ==
    [][ \A u \in Clients, t \in PickTeams :
            HasLoser(u, t) =>
                /\ HasLoser(u, t)'
                /\ NoNewPickOf(u, t)
                /\ (last'.op = "create_pick" /\ session' = u /\ last'.team_id = t)
                       => last'.result # "ok" ]_vars

\* A create_pick for an open week was rejected because of the 'loser' entry, after
\* the updater had added matches and another pick had been stored.
C1_Witness ==
    /\ last.op = "create_pick"
    /\ last.result = "eliminated"
    /\ HasLoser(session, last.team_id)
    /\ matches # {}
    /\ picks # EmptyBag

(* C2: for a logged-in user and a team without 'loser' entry, a create_pick *)
(* for an open week is rejected (usage cap) when the pair has two or more   *)
(* 'winner' entries, and is accepted and stored when it has none or one; in *)
(* a closed week the only rejection is that of the week.                    *)
C2_WinnerCapAtTwo ==
    (WellFormedPick /\ ~HasLoser(session, last.team_id)) =>
        LET wins == UsageCount(team_usage, session, last.team_id, "winner")
            week == WeekOf(last.week)
            new == [user_id |-> session, match_id |-> last.match_id,
                    team_id |-> last.team_id, week |-> week]
        IN  IF week <= LastClosedWeek THEN last.result = "week_closed"
            ELSE IF wins >= 2 THEN last.result = "cap_reached" /\ ~BagIn(new, picks)
            ELSE last.result = "ok" /\ BagIn(new, picks)

\* The cap rejected a pick of user 1 (two 'winner' rows, no 'loser' row) while a pick
\* of user 2 for a team with exactly one 'winner' row is stored.
C2_Witness ==
    /\ WellFormedPick
    /\ last.result = "cap_reached"
    /\ UsageCount(team_usage, session, last.team_id, "winner") = 2
    /\ \E p \in BagToSet(picks) :
           /\ p.user_id # session
           /\ UsageCount(team_usage, p.user_id, p.team_id, "winner") = 1
           /\ ~HasLoser(p.user_id, p.team_id)

(* C3: requests handled one after another leave at most one Pick row for   *)
(* each (user, week).                                                      *)
C3_OnePickPerUserWeek ==
    \A u \in Clients, w \in Weeks : PickCount(picks, u, w) <= 1

\* A pick replaced an earlier one while the other user also holds a pick.
C3_Witness ==
    /\ last.op = "create_pick"
    /\ last.result = "ok"
    /\ last.replaced
    /\ \A u \in Clients : PickCount(picks, u, DefaultWeek) = 1

(* C4: after a successful create_pick the (user, week) has exactly one     *)
(* Pick row, which holds the submitted match and team; the row it replaces *)
(* is gone from picks and is not copied to historical_picks.               *)
C4_PickReplacedBySubmission ==
    [][ (last'.op = "create_pick" /\ last'.result = "ok") =>
            LET week == WeekOf(last'.week)
                new == [user_id |-> session', match_id |-> last'.match_id,
                        team_id |-> last'.team_id, week |-> week]
            IN  /\ PicksOf(picks', session', week) = {new}
                /\ CopiesIn(new, picks') = 1
                /\ BagCardinality(picks') =
                       BagCardinality(picks) - PickCount(picks, session, week) + 1
                /\ historical_picks' = historical_picks ]_vars

\* A successful create_pick found a pick of the user for the week and replaced it.
C4_Witness ==
    /\ last.op = "create_pick"
    /\ last.result = "ok"
    /\ last.replaced
    /\ PicksOf(picks, session, WeekOf(last.week)) =
           {[user_id |-> session, match_id |-> last.match_id,
             team_id |-> last.team_id, week |-> WeekOf(last.week)]}

(* C6: a create_pick that is rejected (not logged in, id missing, week     *)
(* closed, team eliminated, cap reached, or a server error) changes no     *)
(* table and not the session.                                              *)
C6_RejectedPickChangesNothing ==
    [][ (last'.op = "create_pick" /\ last'.result # "ok") =>
            UNCHANGED <<users, session, picks, matches, team_usage, historical_picks>> ]_vars

\* A pick of an eliminated or capped team was rejected and the user's pick for that
\* week is still stored.
C6_Witness ==
    /\ last.op = "create_pick"
    /\ last.result \in {"eliminated", "cap_reached"}
    /\ PicksOf(picks, session, WeekOf(last.week)) # {}

(* C11: a successful create_pick that repeats the stored selection (same   *)
(* user, week, match and team) leaves the state as the first submission    *)
(* left it: the (user, week) has that one Pick row, and the picks table,   *)
(* the other tables and the session are unchanged.                         *)
C11_RepeatedPickIdempotent ==
    [][ LET week == WeekOf(last'.week)
            new == [user_id |-> session', match_id |-> last'.match_id,
                    team_id |-> last'.team_id, week |-> week]
        IN  (last'.op = "create_pick" /\ last'.result = "ok" /\ BagIn(new, picks)) =>
                /\ picks' = picks
                /\ PicksOf(picks', session', week) = {new}
                /\ CopiesIn(new, picks') = 1
                /\ UNCHANGED <<users, session, matches, team_usage, historical_picks>> ]_vars

\* The last create_pick found the very selection it submits already stored.
C11_Witness ==
    /\ last.op = "create_pick"
    /\ last.result = "ok"
    /\ last.existing = [user_id |-> session, match_id |-> last.match_id,
                        team_id |-> last.team_id, week |-> WeekOf(last.week)]
    /\ PickCount(picks, session, WeekOf(last.week)) = 1

\* The TeamUsage rows of a user for a team in a week.
UsageOf(user_id, team_id, week) ==
    {r \in team_usage : r.user_id = user_id /\ r.team_id = team_id /\ r.week = week}

(* C12: no create_pick, accepted or rejected, creates, changes or deletes  *)
(* a TeamUsage or HistoricalPick row.                                      *)
C12_PickLeavesLedger ==
    [][ last'.op = "create_pick" => UNCHANGED <<team_usage, historical_picks>> ]_vars

\* A pick replaced an earlier one of the user and the ledger has no entry for it.
C12_Witness ==
    /\ last.op = "create_pick"
    /\ last.result = "ok"
    /\ last.replaced
    /\ BagIn([user_id |-> session, match_id |-> last.match_id,
              team_id |-> last.team_id, week |-> WeekOf(last.week)], picks)
    /\ UsageOf(session, last.team_id, WeekOf(last.week)) = {}
    /\ team_usage # {}
    /\ historical_picks # {}

----------------------------------------------------------------------------
(* Properties the specification states of create_pick that rest on the     *)
(* matches table, which create_pick does not read.                         *)

\* The Match rows of a week, and a week all of whose matches are completed.
MatchesOfWeek(week) == {r \in matches : r.week = week}
WeekCompleted(week) ==
    MatchesOfWeek(week) # {} /\ \A r \in MatchesOfWeek(week) : r.is_completed

\* The four preconditions of a submission, failed by the last request or not.
FailsWeekOpen == WeekOf(last.week) <= LastClosedWeek \/ WeekCompleted(WeekOf(last.week))
FailsMatchFound ==
    ~(\E r \in matches : r.id = last.match_id /\ r.week = WeekOf(last.week))
FailsTeamInMatch ==
    \E r \in matches : /\ r.id = last.match_id
                       /\ last.team_id \notin {r.away_team_id, r.home_team_id}
FailsEligible ==
    \/ HasLoser(session, last.team_id)
    \/ UsageCount(team_usage, session, last.team_id, "winner") >= 2

\* The rejection the first failing precondition gives, in the order week, match,
\* team, eligibility.
FirstFailingCheck ==
    IF FailsWeekOpen THEN {"week_closed"}
    ELSE IF FailsMatchFound THEN {"match_not_found"}
    ELSE IF FailsTeamInMatch THEN {"invalid_team"}
    ELSE IF FailsEligible THEN {"eliminated", "cap_reached"}
    ELSE {"ok"}

FailingChecks ==
      (IF FailsWeekOpen THEN 1 ELSE 0) + (IF FailsMatchFound THEN 1 ELSE 0)
    + (IF FailsTeamInMatch THEN 1 ELSE 0) + (IF FailsEligible THEN 1 ELSE 0)

(* C5: when two create_pick requests of one user for one week have both    *)
(* been handled, their steps interleaved in any order, the (user, week)    *)
(* has exactly one Pick row and it holds the selection of one of them.     *)
C5_ConcurrentPicksSerialize ==
    (/\ \A r \in Requests : reqs[r].stage = "done" /\ reqs[r].result = "ok"
     /\ WeekOf(reqs[1].week) = WeekOf(reqs[2].week))
    => /\ PickCount(picks, session, WeekOf(reqs[1].week)) = 1
       /\ PicksOf(picks, session, WeekOf(reqs[1].week))
              \subseteq {NewPick(reqs[1]), NewPick(reqs[2])}

(* C7: a create_pick that fails two or more of the preconditions (week     *)
(* open, match found for the week, team in the match, team eligible) is    *)
(* rejected with the reason of the first of them in that order.            *)
C7_FirstFailingCheckReported ==
    (WellFormedPick /\ FailingChecks >= 2) => last.result \in FirstFailingCheck

(* C8: a create_pick for a week all of whose matches are completed is      *)
(* rejected as week-closed, whatever the week number.                      *)
C8_CompletedWeekRejected ==
    (WellFormedPick /\ WeekCompleted(WeekOf(last.week))) => last.result = "week_closed"

(* C9: a create_pick whose match_id names no Match row, or a Match row of  *)
(* another week than the submitted one, is rejected and stores no Pick.    *)
C9_UnknownMatchRejected ==
    (WellFormedPick /\ FailsMatchFound) => last.result # "ok"

(* C10: a create_pick whose team is neither the home nor the away team of  *)
(* the submitted match is rejected and stores no Pick.                     *)
C10_TeamOutsideMatchRejected ==
    (WellFormedPick /\ FailsTeamInMatch) => last.result # "ok"

----------------------------------------------------------------------------
(* Properties of the ledger: historical_picks and team_usage *)

\* The HistoricalPick rows of a user for a week.
HistoryOf(user_id, week) ==
    {h \in historical_picks : h.user_id = user_id /\ h.week = week}

\* The usage_type the ledger owes a HistoricalPick.
UsageTypeOf(h) == IF h.is_correct THEN "winner" ELSE "loser"

\* The week's pick of the user is resolved: a HistoricalPick, and exactly one TeamUsage
\* row for its team and week, of the type its correctness gives.
Resolved(user_id, week) ==
    \E h \in HistoryOf(user_id, week) :
        /\ Cardinality(UsageOf(user_id, h.team_id, week)) = 1
        /\ \A r \in UsageOf(user_id, h.team_id, week) : r.usage_type = UsageTypeOf(h)

(* C13: whenever all matches of a week are completed and a user has a Pick *)
(* for that week, the pick is eventually resolved into a HistoricalPick    *)
(* and one TeamUsage row.                                                  *)
C13_CompletedWeekResolved ==
    \A u \in Clients, w \in Weeks :
        (WeekCompleted(w) /\ PicksOf(picks, u, w) # {}) ~> Resolved(u, w)

\* The ids of the users, and the weeks a ledger row can name.
UserIds == {u.id : u \in users}
LedgerWeeks == 1..MaxWeek

\* The TeamUsage rows of a user for a week.
UsageOfWeek(user_id, week) ==
    {r \in team_usage : r.user_id = user_id /\ r.week = week}

(* C14: there is at most one HistoricalPick and at most one TeamUsage row  *)
(* for each (user, week), and init_database run again on the database      *)
(* adds no row to either table.                                            *)
C14_OneResolutionPerUserWeek ==
    /\ [](\A u \in UserIds, w \in LedgerWeeks :
              /\ Cardinality(HistoryOf(u, w)) <= 1
              /\ Cardinality(UsageOfWeek(u, w)) <= 1)
    /\ [][ last'.op = "init_database" =>
               UNCHANGED <<historical_picks, team_usage>> ]_vars

\* init_database has run again on the seeded database, which also holds a pick.
C14_Witness ==
    /\ last.op = "init_database"
    /\ last.result = "kept"
    /\ \A u \in UserIds : Cardinality(HistoryOf(u, 1)) = 1 /\ Cardinality(UsageOfWeek(u, 2)) = 1
    /\ picks # EmptyBag

\* The weeks for which a user has a HistoricalPick or a Pick.
WeeksPlayed(user_id) ==
    {w \in LedgerWeeks : HistoryOf(user_id, w) # {} \/ PicksOf(picks, user_id, w) # {}}

(* C15: no user has a HistoricalPick and a Pick row for the same week, and *)
(* the leaderboard's total_picks of a user is the number of weeks the user *)
(* has a HistoricalPick or a Pick for.                                     *)
C15_ResolvedWeekHasNoPick ==
    \A u \in UserIds :
        /\ \A w \in LedgerWeeks : HistoryOf(u, w) = {} \/ PicksOf(picks, u, w) = {}
        /\ TotalPicks(u) = Cardinality(WeeksPlayed(u))

\* A pick for a week that has HistoricalPick rows was rejected, and the user holds a
\* pick for an open week next to the two HistoricalPick rows.
C15_Witness ==
    /\ last.op = "create_pick"
    /\ last.result = "week_closed"
    /\ HistoryOf(session, WeekOf(last.week)) # {}
    /\ PicksOf(picks, session, DefaultWeek) # {}
    /\ TotalPicks(session) = 3

(* C16: for every HistoricalPick there is exactly one TeamUsage row with   *)
(* its user, team and week, and that row is of type 'winner' if the pick   *)
(* was correct and 'loser' otherwise.                                      *)
C16_LedgerAgreesWithHistory ==
    \A h \in historical_picks :
        /\ Cardinality(UsageOf(h.user_id, h.team_id, h.week)) = 1
        /\ \A r \in UsageOf(h.user_id, h.team_id, h.week) : r.usage_type = UsageTypeOf(h)

\* The teams a ledger row or a Pick row names.
LedgerTeams == {r.team_id : r \in team_usage} \cup PickTeams

(* C17: no (user, team) pair has more than one TeamUsage row of type       *)
(* 'loser'.                                                                *)
C17_AtMostOneLoser ==
    \A u \in UserIds, t \in LedgerTeams : UsageCount(team_usage, u, t, "loser") <= 1

\* init_database has run again on a database that holds a 'loser' row and a pick.
C17_Witness ==
    /\ last.op = "init_database"
    /\ \E u \in UserIds, t \in LedgerTeams : UsageCount(team_usage, u, t, "loser") = 1
    /\ picks # EmptyBag

(* C18: no (user, team) pair has more than two TeamUsage rows of type      *)
(* 'winner'.                                                               *)
C18_AtMostTwoWinners ==
    \A u \in UserIds, t \in LedgerTeams : UsageCount(team_usage, u, t, "winner") <= 2

\* init_database has run again while a pick is stored for a team its user has a
\* 'winner' row for.
C18_Witness ==
    /\ last.op = "init_database"
    /\ last.result = "kept"
    /\ \E p \in BagToSet(picks) : UsageCount(team_usage, p.user_id, p.team_id, "winner") = 1

(* C19: no step changes or deletes a HistoricalPick or TeamUsage row, and  *)
(* the only Pick rows a step adds or removes are rows of the user and week *)
(* of the create_pick it handles.                                          *)
C19_LedgerAppendOnly ==
    [][ /\ historical_picks \subseteq historical_picks'
        /\ team_usage \subseteq team_usage'
        /\ \A p \in BagToSet(picks) \cup BagToSet(picks') :
               CopiesIn(p, picks') # CopiesIn(p, picks) =>
                   /\ last'.op = "create_pick"
                   /\ p.user_id = session'
                   /\ p.week = WeekOf(last'.week) ]_vars

\* A create_pick replaced a pick by another selection; the other user's pick and the
\* stored 'loser' row are still there.
C19_Witness ==
    /\ last.op = "create_pick"
    /\ last.result = "ok"
    /\ last.replaced
    /\ last.existing.team_id # last.team_id
    /\ \E p \in BagToSet(picks) : p.user_id # session
    /\ \E r \in team_usage : r.usage_type = "loser"

(* C20: a create_pick for an open week of a team the user has a 'loser'    *)
(* row and two or more 'winner' rows for is rejected with the elimination  *)
(* reason, not with the usage cap.                                         *)
C20_LoserReportedBeforeCap ==
    (/\ WellFormedPick
     /\ WeekOf(last.week) > LastClosedWeek
     /\ HasLoser(session, last.team_id)
     /\ UsageCount(team_usage, session, last.team_id, "winner") >= 2)
    => last.result = "eliminated"

\* Such a create_pick was handled: the pair has a 'loser' row and two 'winner' rows.
C20_Witness ==
    /\ WellFormedPick
    /\ last.result = "eliminated"
    /\ HasLoser(session, last.team_id)
    /\ UsageCount(team_usage, session, last.team_id, "winner") = 2

----------------------------------------------------------------------------
(* Properties of the requests of one client session *)

Matching(username, password) ==
    {u \in UserRows : u.username = username /\ u.password_hash = password /\ u.is_active}

(* C22: the session starts logged out; a login with the username and       *)
(* password of an active user logs that user in, any other login leaves    *)
(* the session as it is, a logout logs out, and no other request changes   *)
(* the session.  A create_pick of a logged-out session is rejected with    *)
(* 'not logged in' and changes nothing; an accepted one stores a Pick of   *)
(* the logged-in user.                                                     *)
C22_PickOnlyWhenLoggedIn ==
    /\ session = NoUser
    /\ [][ /\ last'.op = "login" =>
                  session' = IF Matching(last'.username, last'.password) # {}
                             THEN (CHOOSE u \in Matching(last'.username, last'.password) :
                                       TRUE).id
                             ELSE session
           /\ last'.op = "logout" => session' = NoUser
           /\ last'.op \notin {"login", "logout"} => session' = session
           /\ (last'.op = "create_pick" /\ session = NoUser) =>
                  /\ last'.result = "not_logged_in"
                  /\ UNCHANGED <<users, picks, matches, teams, team_usage, historical_picks>>
           /\ (last'.op = "create_pick" /\ last'.result = "ok") =>
                  /\ session # NoUser
                  /\ BagIn([user_id |-> session, match_id |-> last'.match_id,
                            team_id |-> last'.team_id, week |-> WeekOf(last'.week)], picks')
                  /\ \A p \in BagToSet(picks') :
                         p.user_id # session => CopiesIn(p, picks') = CopiesIn(p, picks)
       ]_vars

\* A pick of user 2 is accepted after user 1, who was logged in before, stored one.
C22_Witness ==
    /\ last.op = "create_pick"
    /\ last.result = "ok"
    /\ session = 2
    /\ \E p \in BagToSet(picks) : p.user_id = 1
    /\ \E p \in BagToSet(picks) : p.user_id = 2

----------------------------------------------------------------------------
(* Properties of leaderboard and dashboard *)

\* 1 + the number of users with strictly more points.
CompetitionRank(user_id) ==
    1 + Cardinality({u \in UserIds : Points(u) > Points(user_id)})

(* C23: the leaderboard lists every user once, in non-increasing order of  *)
(* points, a user's points being the number of the user's HistoricalPicks  *)
(* with is_correct true, and gives each user the rank 1 + the number of    *)
(* users with strictly more points, whatever Picks are open.               *)
C23_LeaderboardRanks ==
    last.op = "leaderboard" =>
        LET board == last.board IN
        /\ Len(board) = Cardinality(UserIds)
        /\ {board[k].user_id : k \in DOMAIN board} = UserIds
        /\ \A k \in DOMAIN board :
               /\ board[k].points =
                      Cardinality({h \in historical_picks :
                                      h.user_id = board[k].user_id /\ h.is_correct})
               /\ board[k].rank = CompetitionRank(board[k].user_id)
               /\ k > 1 => board[k - 1].points >= board[k].points

\* A leaderboard with users of equal points above a user with fewer, asked while a
\* Pick is open.
C23_Witness ==
    /\ last.op = "leaderboard"
    /\ picks # EmptyBag
    /\ \E j, k \in DOMAIN last.board :
           /\ j < k
           /\ last.board[j].rank = 2
           /\ last.board[j + 1].rank = 2
           /\ last.board[k].rank = 4

(* C24: the rank the dashboard reports for the logged-in user is the rank  *)
(* the leaderboard reports for that user in the same state.                *)
C24_DashboardRankIsLeaderboardRank ==
    (last.op = "dashboard" /\ last.result = "ok") =>
        \E k \in DOMAIN LeaderboardData :
            /\ LeaderboardData[k].user_id = last.user
            /\ LeaderboardData[k].rank = last.rank

----------------------------------------------------------------------------
(* Properties of the updater *)

\* The pass has returned its results dictionary.
PassReturned == upd.pc = "returned"

(* C25: a Match row that is completed stays: no step of the updater        *)
(* removes it, sets it back to not completed or clears a score of it.      *)
C25_CompletionMonotonic ==
    [][ \A r \in matches :
            r.is_completed =>
                \E q \in matches' : /\ q.id = r.id
                                    /\ q.is_completed
                                    /\ q.away_score # NoScore
                                    /\ q.home_score # NoScore ]_vars

(* C26: the weeks a pass adds are weeks the feed listed and the database   *)
(* had no Match of when the pass began; a week-adding step leaves the      *)
(* Match rows of the weeks the database had then as they are; and when the *)
(* pass returns every week of new_weeks_added has a Match in the database. *)
C26_OnlyNewWeeksAdded ==
    /\ [](upd.new_weeks_added \subseteq upd.available_weeks \ upd.db_weeks)
    /\ [][ (upd.pc = "adding" /\ upd'.new_weeks # upd.new_weeks) =>
               \A r \in matches : r.week \in upd.db_weeks => r \in matches' ]_vars
    /\ [](PassReturned =>
              \A w \in upd.new_weeks_added : \E r \in matches : r.week = w)

(* C27: a pass returns success = False and a non-empty errors list when    *)
(* the teams update, the addition of a new week or the results update      *)
(* failed, and success = True when all of them succeeded.                  *)
C27_SuccessMeansAllStepsSucceeded ==
    PassReturned =>
        LET succeeded == /\ upd.teams_updated
                         /\ upd.new_weeks_added = upd.available_weeks \ upd.db_weeks
                         /\ upd.results_updated
        IN  /\ upd.success = succeeded
            /\ ~upd.success => upd.errors # {}

----------------------------------------------------------------------------
(* Properties of the background thread *)

\* The loop's head has read the clock: a check has begun in this step.
LoopChecks ==
    /\ bg.loop \in {"while", "sleeping"}
    /\ bg'.loop \in {"updating", "sleeping"}
    /\ bg'.current_time # bg.current_time

\* The first instant of hour h of the day of t.
WindowStart(t, h) == Day(t) * 96 + h * 4

\* The trigger windows: the 06:00 hour with no update recorded that day, the Tuesday
\* 10:00 hour with the last update before 10:00, the Monday or Tuesday 23:00 hour with
\* the last update before 23:00.
InTriggerWindow(t, last_update) ==
    \/ Hour(t) = 6 /\ Day(last_update) < Day(t)
    \/ Weekday(t) = 1 /\ Hour(t) = 10 /\ last_update < WindowStart(t, 10)
    \/ Weekday(t) \in {0, 1} /\ Hour(t) = 23 /\ last_update < WindowStart(t, 23)

\* C28: the loop runs an update on a check that finds no update recorded; on any other
\* check it runs one only in a trigger window, judged against the recorded last update
\* (the manual route's included), and two updates it runs one after the other are never
\* in the same hour of the same day.
C28_UpdatesOnlyInTriggerWindows ==
    [][ LoopChecks =>
          /\ bg.last_update = NoTime => bg'.should_update
          /\ (bg'.should_update /\ bg.last_update # NoTime) =>
                 InTriggerWindow(bg'.current_time, bg.last_update)
          /\ (bg'.should_update /\ bg.should_update) =>
                 bg'.current_time \div 4 # bg.current_time \div 4 ]_vars

\* C29: a FlaskNFLUpdater starts at most one thread; once running is false the loop
\* begins no check and the next step of its head ends it; the loop ends in no other
\* way, so not on an exception raised during a check; an ended loop stays ended.
C29_OneThreadStopsAtReread ==
    /\ [](bg.threads <= 1)
    /\ [][ /\ ~bg.running => ~LoopChecks
           /\ (~bg.running /\ bg.loop \in {"while", "sleeping"} /\ bg'.loop # bg.loop) =>
                  bg'.loop = "ended"
           /\ (bg.loop # "ended" /\ bg'.loop = "ended") =>
                  ~bg.running /\ bg.loop \in {"while", "sleeping"}
           /\ bg.loop = "ended" => bg'.loop = "ended" ]_vars

\* stop() was called after a check whose update raised an exception: the loop slept,
\* re-read running and ended, with one thread started.
C29_Witness ==
    /\ bg.loop = "ended"
    /\ bg.raised
    /\ ~bg.running
    /\ bg.threads = 1

====
